---------------------------- MODULE Spec2Model ----------------------------
(***************************************************************************)
(* Model of mainbot.py: the poll cycle (check_for_new_roles), the fan-out  *)
(* dispatch (send_messages_to_channels / send_message), the update pass    *)
(* (update_expired_role_messages) and the process-wide Channel Failure     *)
(* State and Message Tracking Store.                                       *)
(*                                                                         *)
(* The asyncio event loop is single threaded: a coroutine runs atomically  *)
(* from one await to the next.  Every action below is one such atomic      *)
(* stretch of code.  Tasks created with create_task / gather run their     *)
(* first stretch in creation order (the loop's FIFO ready queue); the      *)
(* return of a network call happens at any later time.                     *)
(***************************************************************************)
EXTENDS Naturals, Sequences, FiniteSets, TLC

VARIABLES
    previous_data,           \* contents of previous_data.json, or NoFile
    cycle,                   \* locals of the last check_for_new_roles call
    cycles,                  \* number of check_for_new_roles calls so far
    running,                 \* the polling loop of on_ready is still alive
    failed_channels,         \* the blacklist
    channel_failure_counts,  \* channel id -> count (0 = key absent)
    message_tracking,        \* role key -> sequence of deliveries
    dispatches,              \* send_messages_to_channels tasks, by creation
    sends,                   \* live send_message tasks: <<dispatch, channel>> -> pc
    updates,                 \* update_expired_role_messages tasks, by creation
    ready,                   \* FIFO of tasks that have not yet run their first stretch
    consecutive_failures,    \* observer: failed attempts since the last success
    streak_before_success,   \* observer: value of the above when the last success came
    forbidden_seen,          \* observer: channels whose resolution was forbidden
    main_pc,                 \* position of the process: "start", "run", "exit"
    tracking_file,           \* contents of message_tracking.json
    call                     \* the last call of a pure function and its result

vars == << previous_data, cycle, cycles, running, failed_channels,
           channel_failure_counts, message_tracking, dispatches, sends,
           updates, ready, consecutive_failures, streak_before_success,
           forbidden_seen, main_pc, tracking_file, call >>

\* what the polling cycle and its tasks never touch
store_vars == << main_pc, tracking_file, call >>

---------------------------------------------------------------------------
(* Bounds of the model *)

MaxSnapshotLen == 2     \* records per snapshot
MaxCycles == 2          \* poll cycles per run
MaxDispatches == 2      \* send_messages_to_channels tasks per run, two channels live
MaxRetryDispatches == 4 \* the same, one channel live
MaxTrackCycles == 4     \* poll cycles per run of the tracking specification
MaxStoredMessages == 2  \* deliveries under one key of the tracking store

(* Program constants *)

MAX_RETRIES == 3

CHANNEL_IDS == << "123", "456" >>

Channels == { CHANNEL_IDS[i] : i \in 1..Len(CHANNEL_IDS) }

---------------------------------------------------------------------------
(* Records and snapshots *)

Companies == { "Acme", "Bolt" }
Titles == { "Intern", "Analyst" }

\* role['locations']: the field is missing, null, or a list of strings
MissingLocations == [kind |-> "missing", places |-> << >>]
NullLocations == [kind |-> "null", places |-> << >>]
ListedLocations(places) == [kind |-> "list", places |-> places]

LocationsValues ==
    { MissingLocations, NullLocations, ListedLocations(<< >>),
      ListedLocations(<< "Remote" >>) }

Records == [ company_name : Companies, title : Titles,
             active : BOOLEAN, is_visible : BOOLEAN,
             locations : LocationsValues ]

\* the records that list one location
ListedRecords ==
    { r \in Records : r.locations = ListedLocations(<< "Remote" >>) }

SeqsUpTo(S, n) == UNION { [1..k -> S] : k \in 0..n }

Snapshots == SeqsUpTo(ListedRecords, MaxSnapshotLen)

\* previous_data.json: absent, or holding the last dumped dataset
NoFile == [exists |-> FALSE, data |-> << >>]
File(data) == [exists |-> TRUE, data |-> data]

None == "None"

\* the key of old_roles_dict
DictKey(role) == << role.title, role.company_name >>

\* role_key = f"{role['company_name']}_{role['title']}"
RoleKey(role) == role.company_name \o "_" \o role.title

UniqueKeys(data) ==
    \A i, j \in 1..Len(data) : DictKey(data[i]) = DictKey(data[j]) => i = j

\* old_roles_dict.get(key): the dict comprehension keeps the last record of
\* old_data with a given key; found = FALSE stands for None
OldRolesDictGet(old_data, key) ==
    LET hits == { i \in 1..Len(old_data) : DictKey(old_data[i]) = key }
    IN  IF hits = {} THEN [found |-> FALSE]
        ELSE [found |-> TRUE,
              role |-> old_data[CHOOSE i \in hits : \A j \in hits : j <= i]]

\* if old_role: if old_role['active'] and not new_role['active']
IsDeactivatedMissingOldActive(old_data, new_role) ==
    LET old_role == OldRolesDictGet(old_data, DictKey(new_role))
    IN  old_role.found /\ ~new_role.active

IsDeactivated(old_data, new_role) ==
    LET old_role == OldRolesDictGet(old_data, DictKey(new_role))
    IN  old_role.found /\ old_role.role.active /\ ~new_role.active

\* elif new_role['is_visible'] and new_role['active']
IsNewIgnoringVisibility(old_data, new_role) ==
    LET old_role == OldRolesDictGet(old_data, DictKey(new_role))
    IN  ~old_role.found /\ new_role.active

IsNewIgnoringOld(old_data, new_role) ==
    new_role.is_visible /\ new_role.active

IsNew(old_data, new_role) ==
    LET old_role == OldRolesDictGet(old_data, DictKey(new_role))
    IN  ~old_role.found /\ new_role.is_visible /\ new_role.active

\* new_roles built by prepending: the last record found comes first
NewRolesReversed(old_data, new_data) ==
    LET Test(r) == IsNew(old_data, r)
        found == SelectSeq(new_data, Test)
    IN  [i \in 1..Len(found) |-> found[Len(found) + 1 - i]]

\* the two lists built by the loop over new_data, in order of appearance
NewRoles(old_data, new_data) ==
    LET Test(r) == IsNew(old_data, r) IN SelectSeq(new_data, Test)

DeactivatedRoles(old_data, new_data) ==
    LET Test(r) == IsDeactivated(old_data, r) IN SelectSeq(new_data, Test)


---------------------------------------------------------------------------
(* The Channel Failure State *)

\* channel_failure_counts[channel_id] = channel_failure_counts.get(channel_id, 0) + 1
IncrementFailureEveryChannel(counts, ch) == [c \in DOMAIN counts |-> counts[c] + 1]

\* an increment written back from a count read before an await: the
\* increments made in between are lost
IncrementFailureStale(counts, ch) == [counts EXCEPT ![ch] = 1]

IncrementFailure(counts, ch) == [counts EXCEPT ![ch] = @ + 1]

\* if channel_failure_counts[channel_id] >= MAX_RETRIES: failed_channels.add(channel_id)
ThresholdBlacklistAbove(failed, counts, ch) ==
    IF counts[ch] > MAX_RETRIES THEN failed \cup {ch} ELSE failed

ThresholdBlacklistOrClear(failed, counts, ch) ==
    IF counts[ch] >= MAX_RETRIES THEN failed \cup {ch} ELSE failed \ {ch}

ThresholdBlacklist(failed, counts, ch) ==
    IF counts[ch] >= MAX_RETRIES THEN failed \cup {ch} ELSE failed

\* failed_channels.add(channel_id)  # Immediate blacklist on permission issues
ForbiddenBlacklistAtThreshold(failed, counts, ch) ==
    ThresholdBlacklist(failed, counts, ch)

ForbiddenBlacklist(failed, counts, ch) == failed \cup {ch}

\* if channel_id in channel_failure_counts: del channel_failure_counts[channel_id]
ResetFailureCount(counts, ch) == [counts EXCEPT ![ch] = 0]

\* the channels send_messages_to_channels creates a send_message for, in order
AttemptedChannelsAll(failed) == CHANNEL_IDS

AttemptedChannels(failed) ==
    LET Test(ch) == ch \notin failed IN SelectSeq(CHANNEL_IDS, Test)

---------------------------------------------------------------------------
(* The Message Tracking Store *)

ChannelIndex(ch) == CHOOSE i \in 1..Len(CHANNEL_IDS) : CHANNEL_IDS[i] = ch

\* sent_message.id: the platform gives every message a fresh identifier
MessageId(d, ch) == (d - 1) * Len(CHANNEL_IDS) + ChannelIndex(ch)

EmptyTracking == [k \in {} |-> << >>]

Delivery(ch, id) == [channel_id |-> ch, message_id |-> id]

\* message_tracking[role_key] = [{...}]
TrackDeliveryReplacing(tracking, role_key, ch, id) ==
    [k \in DOMAIN tracking \cup {role_key} |->
        IF k = role_key THEN << Delivery(ch, id) >> ELSE tracking[k]]

\* if role_key not in message_tracking: message_tracking[role_key] = []
\* message_tracking[role_key].append({...})
TrackDelivery(tracking, role_key, ch, id) ==
    [k \in DOMAIN tracking \cup {role_key} |->
        IF k = role_key
        THEN Append(IF k \in DOMAIN tracking THEN tracking[k] ELSE << >>,
                    Delivery(ch, id))
        ELSE tracking[k]]

\* del message_tracking[role_key]
DeleteTracking(tracking, role_key) ==
    [k \in DOMAIN tracking \ {role_key} |-> tracking[k]]

---------------------------------------------------------------------------
(* Tasks *)

DispatchTask(d) == [kind |-> "dispatch", id |-> d, ch |-> ""]
SendTask(d, ch) == [kind |-> "send", id |-> d, ch |-> ch]
UpdateTask(u)   == [kind |-> "update", id |-> u, ch |-> ""]

IsHead(task) == ready # << >> /\ Head(ready) = task

\* a send_message coroutine that ends: gather counts it as finished
FinishSend(t) ==
    /\ sends' = sends \ {t}
    /\ dispatches' = [dispatches EXCEPT ![t.d].pending = @ \ {t.ch}]

MoveSend(t, pc) ==
    /\ sends' = (sends \ {t}) \cup {[t EXCEPT !.pc = pc]}
    /\ UNCHANGED dispatches

\* appends made through message_tracking[role_key] are seen by an update
\* pass that iterates over that same list object
AliasAppend(ups, role_key, ch, id) ==
    [u \in DOMAIN ups |->
        IF ups[u].pc = "edit" /\ ups[u].alias /\ ups[u].role_key = role_key
        THEN [ups[u] EXCEPT !.msgs = Append(@, Delivery(ch, id))]
        ELSE ups[u]]

\* after del message_tracking[role_key] the other passes keep the old list
AliasDrop(ups, role_key) ==
    [u \in DOMAIN ups |->
        IF ups[u].role_key = role_key THEN [ups[u] EXCEPT !.alias = FALSE]
        ELSE ups[u]]

---------------------------------------------------------------------------
(* check_for_new_roles: one poll cycle, called by the loop of on_ready *)

\* if os.path.exists('previous_data.json'): old_data = json.load(file)
\* else: old_data = []
OldData == IF previous_data.exists THEN previous_data.data ELSE << >>

\* role['locations'] in format_message and in the updated_message of
\* update_expired_role_messages: a missing field raises KeyError
Renders(role) == role.locations.kind # "missing"

\* delivered: observer, the channels on which channel.send has returned
NewDispatch(role) ==
    [role_key |-> RoleKey(role), about |-> DictKey(role), kind |-> "new",
     pc |-> "ready", pending |-> {}, delivered |-> {}]

DeactivationDispatch(role) ==
    [role_key |-> None, about |-> DictKey(role), kind |-> "deactivation",
     pc |-> "ready", pending |-> {}, delivered |-> {}]

NewUpdate(role) ==
    [role_key |-> RoleKey(role), about |-> DictKey(role),
     renders |-> Renders(role), pc |-> "ready",
     i |-> 0, msgs |-> << >>, alias |-> FALSE]

\* clone_or_update_repo() or read_json() raises: the exception leaves
\* check_for_new_roles, schedule.run_pending() and the loop of on_ready
CheckForNewRolesFetchErrorCommits ==
    /\ running
    /\ running' = FALSE
    /\ cycles' = cycles + 1
    /\ previous_data' = File(<< >>)
    /\ UNCHANGED << store_vars, cycle, failed_channels,
                    channel_failure_counts, message_tracking, dispatches,
                    sends, updates, ready, consecutive_failures, streak_before_success,
                    forbidden_seen >>

CheckForNewRolesFetchError ==
    /\ running
    /\ running' = FALSE
    /\ cycles' = cycles + 1
    /\ UNCHANGED << store_vars, previous_data, cycle, failed_channels,
                    channel_failure_counts, message_tracking, dispatches,
                    sends, updates, ready, consecutive_failures, streak_before_success,
                    forbidden_seen >>

\* the new roles whose dispatch is created: all of them, or those before
\* the first one that format_message cannot render
RenderedPrefix(new_roles) ==
    LET bad == { i \in 1..Len(new_roles) : ~Renders(new_roles[i]) }
    IN  IF bad = {} THEN Len(new_roles)
        ELSE (CHOOSE i \in bad : \A j \in bad : i <= j) - 1

CheckForNewRoles(new_data) ==
    LET old_data == OldData
        new_roles == NewRoles(old_data, new_data)
        deactivated_roles == DeactivatedRoles(old_data, new_data)
        \* format_message(role) raises: the exception leaves the function
        \* before the loop over deactivated_roles and before the dump
        raised == RenderedPrefix(new_roles) < Len(new_roles)
        nn == RenderedPrefix(new_roles)
        nx == IF raised THEN 0 ELSE Len(deactivated_roles)
        nd == Len(dispatches)
        nu == Len(updates)
    IN  /\ running
        /\ cycles' = cycles + 1
        /\ cycle' = [old_data |-> old_data, new_data |-> new_data,
                     new_roles |-> new_roles,
                     deactivated_roles |-> deactivated_roles,
                     raised |-> raised]
        \* for role in new_roles:
        \*     create_task(send_messages_to_channels(message, role_key))
        \* for role in deactivated_roles:
        \*     create_task(update_expired_role_messages(role))
        \*     create_task(send_messages_to_channels(message))
        /\ dispatches' = dispatches
                \o [i \in 1..nn |-> NewDispatch(new_roles[i])]
                \o [i \in 1..nx |-> DeactivationDispatch(deactivated_roles[i])]
        /\ updates' = updates \o [i \in 1..nx |-> NewUpdate(deactivated_roles[i])]
        /\ ready' = ready
                \o [i \in 1..nn |-> DispatchTask(nd + i)]
                \o [j \in 1..(2 * nx) |->
                        IF j % 2 = 1 THEN UpdateTask(nu + (j + 1) \div 2)
                        ELSE DispatchTask(nd + nn + j \div 2)]
        \* json.dump(new_data, file)
        /\ previous_data' = IF raised THEN previous_data ELSE File(new_data)
        /\ running' = ~raised
        /\ UNCHANGED << store_vars, failed_channels, channel_failure_counts,
                        message_tracking, sends, consecutive_failures,
                        streak_before_success, forbidden_seen >>

---------------------------------------------------------------------------
(* send_messages_to_channels *)

\* await asyncio.gather(*tasks, return_exceptions=True): the dispatch resumes
\* when every send_message has finished, whatever each of them ended with
JoinResult(d) == "done"

\* first stretch: build the list of coroutines, hand them to gather
DispatchStart(d) ==
    LET chans == AttemptedChannels(failed_channels)
        n == Len(chans)
    IN  /\ IsHead(DispatchTask(d))
        /\ dispatches' = [dispatches EXCEPT
                ![d].pc = IF n = 0 THEN JoinResult(d) ELSE "gather",
                ![d].pending = { chans[i] : i \in 1..n }]
        /\ sends' = sends \cup
                { [d |-> d, ch |-> chans[i], role_key |-> dispatches[d].role_key,
                   pc |-> "ready"] : i \in 1..n }
        /\ ready' = Tail(ready) \o [i \in 1..n |-> SendTask(d, chans[i])]
        /\ UNCHANGED << store_vars, previous_data, cycle, cycles, running, failed_channels,
                        channel_failure_counts, message_tracking, updates,
                        consecutive_failures, streak_before_success, forbidden_seen >>

\* gather resumes its caller when the last channel.send has returned
GatherDoneAtSend(d) ==
    \A t \in sends : t.d = d => t.pc = "sleep"

\* every awaitable handed to gather has finished
GatherDone(d) == dispatches[d].pending = {}

DispatchJoin(d) ==
    /\ dispatches[d].pc = "gather"
    /\ GatherDone(d)
    /\ dispatches' = [dispatches EXCEPT ![d].pc = JoinResult(d)]
    /\ UNCHANGED << store_vars, previous_data, cycle, cycles, running, failed_channels,
                    channel_failure_counts, message_tracking, sends, updates,
                    ready, consecutive_failures, streak_before_success, forbidden_seen >>

---------------------------------------------------------------------------
(* send_message *)

\* if channel_id in failed_channels: print("Skipping ..."); return
SendSkip(t) ==
    /\ t.pc = "ready"
    /\ IsHead(SendTask(t.d, t.ch))
    /\ t.ch \in failed_channels
    /\ ready' = Tail(ready)
    /\ FinishSend(t)
    /\ UNCHANGED << store_vars, previous_data, cycle, cycles, running, failed_channels,
                    channel_failure_counts, message_tracking, updates,
                    consecutive_failures, streak_before_success, forbidden_seen >>

\* bot.get_channel finds the channel in the cache: await channel.send(message)
SendStartCached(t) ==
    /\ t.pc = "ready"
    /\ IsHead(SendTask(t.d, t.ch))
    /\ t.ch \notin failed_channels
    /\ ready' = Tail(ready)
    /\ MoveSend(t, "send")
    /\ UNCHANGED << store_vars, previous_data, cycle, cycles, running, failed_channels,
                    channel_failure_counts, message_tracking, updates,
                    consecutive_failures, streak_before_success, forbidden_seen >>

\* bot.get_channel returns None: await bot.fetch_channel(int(channel_id))
SendStartFetch(t) ==
    /\ t.pc = "ready"
    /\ IsHead(SendTask(t.d, t.ch))
    /\ t.ch \notin failed_channels
    /\ ready' = Tail(ready)
    /\ MoveSend(t, "fetch")
    /\ UNCHANGED << store_vars, previous_data, cycle, cycles, running, failed_channels,
                    channel_failure_counts, message_tracking, updates,
                    consecutive_failures, streak_before_success, forbidden_seen >>

\* fetch_channel returns the channel: await channel.send(message)
FetchOk(t) ==
    /\ t.pc = "fetch"
    /\ MoveSend(t, "send")
    /\ UNCHANGED << store_vars, previous_data, cycle, cycles, running, failed_channels,
                    channel_failure_counts, message_tracking, updates, ready,
                    consecutive_failures, streak_before_success, forbidden_seen >>

\* the three handlers that count a failure: except discord.NotFound (fetch),
\* except Exception (fetch), except Exception (send)
CountFailure(t) ==
    LET counts == IncrementFailure(channel_failure_counts, t.ch)
    IN  /\ channel_failure_counts' = counts
        /\ failed_channels' = ThresholdBlacklist(failed_channels, counts, t.ch)
        /\ consecutive_failures' =
                [consecutive_failures EXCEPT ![t.ch] = @ + 1]
        /\ FinishSend(t)
        /\ UNCHANGED << store_vars, previous_data, cycle, cycles, running,
                        message_tracking, updates, ready,
                        streak_before_success, forbidden_seen >>

FetchNotFound(t) ==
    /\ t.pc = "fetch"
    /\ CountFailure(t)

FetchError(t) ==
    /\ t.pc = "fetch"
    /\ CountFailure(t)

\* except discord.Forbidden: failed_channels.add(channel_id); return
FetchForbidden(t) ==
    /\ t.pc = "fetch"
    /\ failed_channels' =
            ForbiddenBlacklist(failed_channels, channel_failure_counts, t.ch)
    /\ forbidden_seen' = forbidden_seen \cup {t.ch}
    /\ FinishSend(t)
    /\ UNCHANGED << store_vars, previous_data, cycle, cycles, running,
                    channel_failure_counts, message_tracking, updates, ready,
                    consecutive_failures, streak_before_success >>

\* channel.send returns: track the message, reset the count, sleep(2)
SendOk(t) ==
    /\ t.pc = "send"
    /\ IF t.role_key # None
       THEN /\ message_tracking' = TrackDelivery(message_tracking, t.role_key,
                                                 t.ch, MessageId(t.d, t.ch))
            /\ updates' = AliasAppend(updates, t.role_key, t.ch,
                                      MessageId(t.d, t.ch))
       ELSE UNCHANGED << message_tracking, updates >>
    /\ channel_failure_counts' = ResetFailureCount(channel_failure_counts, t.ch)
    /\ consecutive_failures' = [consecutive_failures EXCEPT ![t.ch] = 0]
    /\ streak_before_success' =
            [streak_before_success EXCEPT ![t.ch] = consecutive_failures[t.ch]]
    /\ sends' = (sends \ {t}) \cup {[t EXCEPT !.pc = "sleep"]}
    /\ dispatches' = [dispatches EXCEPT ![t.d].delivered = @ \cup {t.ch}]
    /\ UNCHANGED << store_vars, previous_data, cycle, cycles, running, failed_channels,
                    ready, forbidden_seen >>

\* channel.send raises: except Exception
SendError(t) ==
    /\ t.pc = "send"
    /\ CountFailure(t)

\* asyncio.sleep(2) is over: the coroutine returns
SleepDone(t) ==
    /\ t.pc = "sleep"
    /\ FinishSend(t)
    /\ UNCHANGED << store_vars, previous_data, cycle, cycles, running, failed_channels,
                    channel_failure_counts, message_tracking, updates, ready,
                    consecutive_failures, streak_before_success, forbidden_seen >>

---------------------------------------------------------------------------
(* update_expired_role_messages *)

\* after the last msg_info: del message_tracking[role_key]; a missing key
\* raises KeyError, which ends the task
FinishUpdate(u) ==
    IF updates[u].role_key \in DOMAIN message_tracking
    THEN /\ message_tracking' =
                DeleteTracking(message_tracking, updates[u].role_key)
         /\ updates' = [AliasDrop(updates, updates[u].role_key)
                            EXCEPT ![u].pc = "done"]
    ELSE /\ updates' = [updates EXCEPT ![u].pc = "raised"]
         /\ UNCHANGED message_tracking

\* first stretch, up to the first network call for the first msg_info
UpdateStart(u) ==
    /\ IsHead(UpdateTask(u))
    /\ ready' = Tail(ready)
    /\ IF updates[u].role_key \notin DOMAIN message_tracking
       THEN /\ updates' = [updates EXCEPT ![u].pc = "done"]
            /\ UNCHANGED message_tracking
       \* updated_message = f"...{role['locations']}...": KeyError
       ELSE IF ~updates[u].renders
       THEN /\ updates' = [updates EXCEPT ![u].pc = "raised"]
            /\ UNCHANGED message_tracking
       ELSE IF message_tracking[updates[u].role_key] = << >>
       THEN FinishUpdate(u)
       ELSE /\ updates' = [updates EXCEPT
                    ![u].pc = "edit", ![u].i = 1, ![u].alias = TRUE,
                    ![u].msgs = message_tracking[updates[u].role_key]]
            /\ UNCHANGED message_tracking
    /\ UNCHANGED << store_vars, previous_data, cycle, cycles, running, failed_channels,
                    channel_failure_counts, dispatches, sends,
                    consecutive_failures, streak_before_success, forbidden_seen >>

\* how the calls for one msg_info end: the edit is made, or one of the
\* three handlers prints and the loop goes on
EditOutcomes == { "updated", "NotFound", "Forbidden", "Exception" }

UpdateEdit(u, outcome) ==
    /\ updates[u].pc = "edit"
    /\ outcome \in EditOutcomes
    /\ IF updates[u].i < Len(updates[u].msgs)
       THEN /\ updates' = [updates EXCEPT ![u].i = @ + 1]
            /\ UNCHANGED message_tracking
       ELSE FinishUpdate(u)
    /\ UNCHANGED << store_vars, previous_data, cycle, cycles, running, failed_channels,
                    channel_failure_counts, dispatches, sends, ready,
                    consecutive_failures, streak_before_success, forbidden_seen >>

---------------------------------------------------------------------------
(* Rendering: format_message and the message of update_expired_role_messages *)

Placeholder == "Not specified"

\* ', '.join(places)
RECURSIVE JoinPlaces(_)
JoinPlaces(places) ==
    IF Len(places) = 1 THEN places[1]
    ELSE places[1] \o ", " \o JoinPlaces(Tail(places))

\* ', '.join(role['locations']) if role['locations'] else 'Not specified',
\* for a role that has the field: None and [] are falsy
LocationStr(role) ==
    IF role.locations.kind = "list" /\ role.locations.places # << >>
    THEN JoinPlaces(role.locations.places)
    ELSE Placeholder

\* format_message(role): role['locations'] raises KeyError when the field
\* is missing; otherwise the text carries location_str
FormatMessage(role) ==
    IF Renders(role) THEN [raised |-> FALSE, location |-> LocationStr(role)]
    ELSE [raised |-> TRUE, location |-> ""]

\* updated_message of update_expired_role_messages: the same expression
\* inside the f-string
UpdatedMessage(role) ==
    IF Renders(role) THEN [raised |-> FALSE, location |-> LocationStr(role)]
    ELSE [raised |-> TRUE, location |-> ""]

FormatMessageCall ==
    /\ call.fn = "none"
    /\ call' = [fn |-> "format_message", role |-> call.role,
                result |-> FormatMessage(call.role)]
    /\ UNCHANGED << previous_data, cycle, cycles, running, failed_channels,
                    channel_failure_counts, message_tracking, dispatches,
                    sends, updates, ready, consecutive_failures,
                    streak_before_success, forbidden_seen, main_pc,
                    tracking_file >>

UpdatedMessageCall ==
    /\ call.fn = "none"
    /\ call' = [fn |-> "updated_message", role |-> call.role,
                result |-> UpdatedMessage(call.role)]
    /\ UNCHANGED << previous_data, cycle, cycles, running, failed_channels,
                    channel_failure_counts, message_tracking, dispatches,
                    sends, updates, ready, consecutive_failures,
                    streak_before_success, forbidden_seen, main_pc,
                    tracking_file >>

---------------------------------------------------------------------------
(* compare_roles *)

\* a role dict: its items in the order of the dict, keys unique
CompareFields == { "sponsorship", "locations" }
CompareValues == { None, "Yes", "No" }

RoleDicts ==
    { items \in SeqsUpTo([key : CompareFields, value : CompareValues],
                         Cardinality(CompareFields)) :
        \A i, j \in 1..Len(items) : items[i].key = items[j].key => i = j }

\* role.get(key): the value, or None when the key is absent
Get(role, key) ==
    LET hits == { i \in 1..Len(role) : role[i].key = key }
    IN  IF hits = {} THEN None ELSE role[CHOOSE i \in hits : TRUE].value

\* f"{key} changed from {old_role.get(key)} to {new_role.get(key)}"
ChangeText(key, old_value, new_value) ==
    key \o " changed from " \o old_value \o " to " \o new_value

\* for key in new_role: if old_role.get(key) != new_role.get(key): append
CompareRoles(old_role, new_role) ==
    LET Differs(item) == Get(old_role, item.key) # Get(new_role, item.key)
        changed == SelectSeq(new_role, Differs)
    IN  [i \in 1..Len(changed) |->
            ChangeText(changed[i].key, Get(old_role, changed[i].key),
                       Get(new_role, changed[i].key))]

CompareRolesCall ==
    /\ call.fn = "none"
    /\ call' = [fn |-> "compare_roles", old_role |-> call.old_role,
                new_role |-> call.new_role,
                result |-> CompareRoles(call.old_role, call.new_role)]
    /\ UNCHANGED << previous_data, cycle, cycles, running, failed_channels,
                    channel_failure_counts, message_tracking, dispatches,
                    sends, updates, ready, consecutive_failures,
                    streak_before_success, forbidden_seen, main_pc,
                    tracking_file >>

---------------------------------------------------------------------------
(* The persisted tracking store: save_message_tracking, load_message_tracking,
   signal_handler, main *)

\* message_tracking.json does not exist
AbsentStore == [kind |-> "absent", entries |-> << >>]

\* message_tracking.json holds text that json.load rejects
CorruptStore == [kind |-> "corrupt", entries |-> << >>]

\* message_tracking.json holds a JSON object: its entries in file order
JsonStore(entries) == [kind |-> "json", entries |-> entries]

\* a delivery as send_message records it, with its 'timestamp': a datetime
\* is its whole seconds and its microseconds
TimedDelivery(ch, id, ts) ==
    [channel_id |-> ch, message_id |-> id, timestamp |-> ts]

\* datetime.isoformat() keeps the seconds only: the fraction is never written
IsoformatSeconds(ts) ==
    [valid |-> TRUE, second |-> ts.second, fraction |-> << >>]

\* datetime.isoformat(): "YYYY-MM-DDTHH:MM:SS", followed by ".ffffff" only
\* when the microseconds are not zero
Isoformat(ts) ==
    [valid |-> TRUE, second |-> ts.second,
     fraction |-> IF ts.microsecond = 0 THEN << >> ELSE << ts.microsecond >>]

\* a 'timestamp' of the file that datetime.fromisoformat rejects
BadText == [valid |-> FALSE, second |-> 0, fraction |-> << >>]

\* datetime.fromisoformat(text), for a text it accepts
FromIsoformat(text) ==
    [second |-> text.second,
     microsecond |-> IF text.fraction = << >> THEN 0 ELSE text.fraction[1]]

\* msg_copy = msg.copy(); msg_copy['timestamp'] = msg_copy['timestamp'].isoformat()
SerializeMessage(msg) == [msg EXCEPT !.timestamp = Isoformat(@)]

\* msg['timestamp'] = datetime.fromisoformat(msg['timestamp'])
ParseMessage(msg) == [msg EXCEPT !.timestamp = FromIsoformat(@)]

\* the orders in which a dict can list its keys: the order of insertion,
\* which the tracking state of the model does not keep
KeyOrders(tracking) ==
    { order \in [1..Cardinality(DOMAIN tracking) -> DOMAIN tracking] :
        \A i, j \in DOMAIN order : order[i] = order[j] => i = j }

\* serializable_tracking, as json.dump writes it
SerializedTracking(tracking, order) ==
    [i \in 1..Len(order) |->
        [role_key |-> order[i],
         messages |-> [j \in 1..Len(tracking[order[i]]) |->
                            SerializeMessage(tracking[order[i]][j])]]]

\* the messages of one entry that are appended before fromisoformat raises
LoadedPrefix(messages) ==
    LET bad == { j \in 1..Len(messages) : ~messages[j].timestamp.valid }
        n == IF bad = {} THEN Len(messages)
             ELSE (CHOOSE j \in bad : \A k \in bad : j <= k) - 1
    IN  [j \in 1..n |-> ParseMessage(messages[j])]

EntryRaises(messages) ==
    \E j \in 1..Len(messages) : ~messages[j].timestamp.valid

\* message_tracking[role_key] = []; then one append per message
SetEntry(tracking, role_key, messages) ==
    [k \in DOMAIN tracking \cup {role_key} |->
        IF k = role_key THEN messages ELSE tracking[k]]

\* for role_key, messages in loaded_tracking.items(): the loop stops at the
\* first exception and what it has stored by then stays
RECURSIVE LoadEntries(_, _)
LoadEntries(tracking, entries) ==
    IF entries = << >> THEN tracking
    ELSE LET entry == Head(entries)
             loaded == SetEntry(tracking, entry.role_key,
                                LoadedPrefix(entry.messages))
         IN  IF EntryRaises(entry.messages) THEN loaded
             ELSE LoadEntries(loaded, Tail(entries))

\* load_message_tracking(): os.path.exists is false, or json.load raises, or
\* the entries are loaded one by one; every exception ends in a print
LoadMessageTracking(tracking, file) ==
    IF file.kind = "json" THEN LoadEntries(tracking, file.entries)
    ELSE tracking

\* main(): a new process, message_tracking = {}, then load_message_tracking()
Main ==
    /\ main_pc \in { "start", "exit" }
    /\ message_tracking' = LoadMessageTracking(EmptyTracking, tracking_file)
    /\ main_pc' = "run"
    /\ UNCHANGED << previous_data, cycle, cycles, running, failed_channels,
                    channel_failure_counts, dispatches, sends, updates, ready,
                    consecutive_failures, streak_before_success,
                    forbidden_seen, tracking_file, call >>

\* send_message, after channel.send: the delivery is appended to the list
\* of its key with 'timestamp': datetime.now()
RecordDelivery(role_key, delivery) ==
    /\ main_pc = "run"
    /\ message_tracking' =
            SetEntry(message_tracking, role_key,
                     IF role_key \in DOMAIN message_tracking
                     THEN Append(message_tracking[role_key], delivery)
                     ELSE << delivery >>)
    /\ UNCHANGED << previous_data, cycle, cycles, running, failed_channels,
                    channel_failure_counts, dispatches, sends, updates, ready,
                    consecutive_failures, streak_before_success,
                    forbidden_seen, main_pc, tracking_file, call >>

\* update_expired_role_messages, its last line: del message_tracking[role_key]
ConsumeTracking(role_key) ==
    /\ main_pc = "run"
    /\ role_key \in DOMAIN message_tracking
    /\ message_tracking' = DeleteTracking(message_tracking, role_key)
    /\ UNCHANGED << previous_data, cycle, cycles, running, failed_channels,
                    channel_failure_counts, dispatches, sends, updates, ready,
                    consecutive_failures, streak_before_success,
                    forbidden_seen, main_pc, tracking_file, call >>

\* signal_handler that leaves without saving
SignalHandlerExitOnly ==
    /\ main_pc = "run"
    /\ main_pc' = "exit"
    /\ UNCHANGED << previous_data, cycle, cycles, running, failed_channels,
                    channel_failure_counts, message_tracking, dispatches,
                    sends, updates, ready, consecutive_failures,
                    streak_before_success, forbidden_seen, tracking_file,
                    call >>

\* signal_handler(sig, frame): save_message_tracking(); sys.exit(0).  The
\* process is gone; message_tracking keeps what its memory held at the exit
SignalHandler ==
    /\ main_pc = "run"
    /\ \E order \in KeyOrders(message_tracking) :
            tracking_file' =
                JsonStore(SerializedTracking(message_tracking, order))
    /\ main_pc' = "exit"
    /\ UNCHANGED << previous_data, cycle, cycles, running, failed_channels,
                    channel_failure_counts, message_tracking, dispatches,
                    sends, updates, ready, consecutive_failures,
                    streak_before_success, forbidden_seen, call >>

---------------------------------------------------------------------------
(* Specifications *)

\* no pure function has been called
NoCall == [fn |-> "none"]

NoCycle == [old_data |-> << >>, new_data |-> << >>, new_roles |-> << >>,
            deactivated_roles |-> << >>, raised |-> FALSE]

\* the process after main() has loaded an absent tracking file and the bot
\* is ready: nothing committed, nothing sent
Init ==
    /\ previous_data = NoFile
    /\ cycle = NoCycle
    /\ cycles = 0
    /\ running = TRUE
    /\ failed_channels = {}
    /\ channel_failure_counts = [ch \in Channels |-> 0]
    /\ message_tracking = EmptyTracking
    /\ dispatches = << >>
    /\ sends = {}
    /\ updates = << >>
    /\ ready = << >>
    /\ consecutive_failures = [ch \in Channels |-> 0]
    /\ streak_before_success = [ch \in Channels |-> 0]
    /\ forbidden_seen = {}
    /\ main_pc = "run"
    /\ tracking_file = AbsentStore
    /\ call = NoCall

\* the datasets fed to the cycles of the dispatch specifications: the one
\* listing Acme/Intern, visible, active or not, with or without its
\* locations field, possibly listed twice
CycleRecords ==
    { r \in Records :
        /\ r.is_visible /\ r.company_name = "Acme" /\ r.title = "Intern"
        /\ r.locations \in { MissingLocations, ListedLocations(<< "Remote" >>) } }

CycleInputs == SeqsUpTo(CycleRecords, MaxSnapshotLen)

\* what the tasks created so far do, in any interleaving
TaskStep ==
    \/ \E d \in 1..Len(dispatches) : DispatchStart(d)
    \/ \E d \in 1..Len(dispatches) : DispatchJoin(d)
    \/ \E t \in sends : SendSkip(t)
    \/ \E t \in sends : SendStartCached(t)
    \/ \E t \in sends : SendStartFetch(t)
    \/ \E t \in sends : FetchOk(t)
    \/ \E t \in sends : FetchNotFound(t)
    \/ \E t \in sends : FetchForbidden(t)
    \/ \E t \in sends : FetchError(t)
    \/ \E t \in sends : SendOk(t)
    \/ \E t \in sends : SendError(t)
    \/ \E t \in sends : SleepDone(t)
    \/ \E u \in 1..Len(updates) : UpdateStart(u)
    \/ \E u \in 1..Len(updates), o \in EditOutcomes : UpdateEdit(u, o)

\* on_ready sleeps one second between two schedule.run_pending(): every
\* task created so far has run up to its first await
Polled == ready = << >>

Cycle ==
    /\ cycles < MaxCycles
    /\ Polled
    /\ \E new_data \in CycleInputs :
            /\ CheckForNewRoles(new_data)
            /\ Len(dispatches') <= MaxDispatches

CycleFetchError ==
    /\ cycles < MaxCycles
    /\ Polled
    /\ CheckForNewRolesFetchError

Next == Cycle \/ CycleFetchError \/ TaskStep

Spec == Init /\ [][Next]_vars

\* the diff specification: one cycle from any committed snapshot to any
\* fetched dataset
InitDiff ==
    /\ previous_data \in { File(s) : s \in Snapshots } \cup {NoFile}
    /\ cycle = NoCycle
    /\ cycles = 0
    /\ running = TRUE
    /\ failed_channels = {}
    /\ channel_failure_counts = [ch \in Channels |-> 0]
    /\ message_tracking = EmptyTracking
    /\ dispatches = << >>
    /\ sends = {}
    /\ updates = << >>
    /\ ready = << >>
    /\ consecutive_failures = [ch \in Channels |-> 0]
    /\ streak_before_success = [ch \in Channels |-> 0]
    /\ forbidden_seen = {}
    /\ main_pc = "run"
    /\ tracking_file = AbsentStore
    /\ call = NoCall

CycleDiff ==
    /\ cycles = 0
    /\ \E new_data \in Snapshots : CheckForNewRoles(new_data)

NextDiff == CycleDiff

SpecDiff == InitDiff /\ [][NextDiff]_vars

\* the one-channel specification: a process in which channel "456" was
\* blacklisted by a forbidden answer in earlier cycles, whose tasks have all
\* finished and whose last cycle committed an empty dataset; every dispatch
\* now attempts channel "123" only
InitRetry ==
    /\ previous_data = File(<< >>)
    /\ cycle = NoCycle
    /\ cycles = 0
    /\ running = TRUE
    /\ failed_channels = {"456"}
    /\ channel_failure_counts = [ch \in Channels |-> 0]
    /\ message_tracking = EmptyTracking
    /\ dispatches = << >>
    /\ sends = {}
    /\ updates = << >>
    /\ ready = << >>
    /\ consecutive_failures = [ch \in Channels |-> 0]
    /\ streak_before_success = [ch \in Channels |-> 0]
    /\ forbidden_seen = {"456"}
    /\ main_pc = "run"
    /\ tracking_file = AbsentStore
    /\ call = NoCall

\* the datasets fed to its cycles: Acme/Intern and Bolt/Intern, visible,
\* active or not, each listed at most once
RetryRecords ==
    { r \in ListedRecords : r.is_visible /\ r.title = "Intern" }

RetryInputs ==
    { data \in SeqsUpTo(RetryRecords, MaxSnapshotLen) : UniqueKeys(data) }

CycleRetry ==
    /\ cycles < MaxCycles
    /\ Polled
    /\ \E new_data \in RetryInputs :
            /\ CheckForNewRoles(new_data)
            /\ Len(dispatches') <= MaxRetryDispatches

NextRetry == CycleRetry \/ TaskStep

SpecRetry == InitRetry /\ [][NextRetry]_vars

\* the tracking specification: a process whose first cycle found
\* Acme/Intern new and delivered it to both channels, all tasks finished;
\* the listing then closes and reopens Acme/Intern from cycle to cycle
AcmeIntern(active) ==
    [company_name |-> "Acme", title |-> "Intern", active |-> active,
     is_visible |-> TRUE, locations |-> ListedLocations(<< "Remote" >>)]

InitTrack ==
    /\ previous_data = File(<< AcmeIntern(TRUE) >>)
    /\ cycle = [old_data |-> << >>, new_data |-> << AcmeIntern(TRUE) >>,
                new_roles |-> << AcmeIntern(TRUE) >>,
                deactivated_roles |-> << >>, raised |-> FALSE]
    /\ cycles = 1
    /\ running = TRUE
    /\ failed_channels = {}
    /\ channel_failure_counts = [ch \in Channels |-> 0]
    /\ message_tracking =
            TrackDelivery(
                TrackDelivery(EmptyTracking, "Acme_Intern", "123",
                              MessageId(1, "123")),
                "Acme_Intern", "456", MessageId(1, "456"))
    /\ dispatches = << [NewDispatch(AcmeIntern(TRUE)) EXCEPT
                            !.pc = "done", !.delivered = Channels] >>
    /\ sends = {}
    /\ updates = << >>
    /\ ready = << >>
    /\ consecutive_failures = [ch \in Channels |-> 0]
    /\ streak_before_success = [ch \in Channels |-> 0]
    /\ forbidden_seen = {}
    /\ main_pc = "run"
    /\ tracking_file = AbsentStore
    /\ call = NoCall

TrackInputs == { << AcmeIntern(active) >> : active \in BOOLEAN }

CycleTrack ==
    /\ cycles < MaxTrackCycles
    /\ Polled
    /\ \E new_data \in TrackInputs : CheckForNewRoles(new_data)

NextTrack == CycleTrack \/ TaskStep

SpecTrack == InitTrack /\ [][NextTrack]_vars

\* the key specification: the one-channel process fed with two records
\* whose names contain the separator of role_key
UnderscoreRecord(company_name, title, active) ==
    [company_name |-> company_name, title |-> title, active |-> active,
     is_visible |-> TRUE, locations |-> ListedLocations(<< "Remote" >>)]

\* the datasets fed to its cycles: both records, each active or not
KeyInputs ==
    { << UnderscoreRecord("Acme_Labs", "Intern", a),
         UnderscoreRecord("Acme", "Labs_Intern", b) >> : a, b \in BOOLEAN }

CycleKey ==
    /\ cycles < MaxCycles
    /\ Polled
    /\ \E new_data \in KeyInputs :
            /\ CheckForNewRoles(new_data)
            /\ Len(dispatches') <= MaxRetryDispatches

NextKey == CycleKey \/ TaskStep

SpecKey == InitRetry /\ [][NextKey]_vars

\* the store specification: a process started on whatever the tracking file
\* holds, recording and consuming deliveries until a signal ends it, and
\* started again on the file it left
StoreKeys == { "Acme_Intern", "Bolt_Intern" }

StoredDeliveries ==
    { TimedDelivery("123", 1, [second |-> 7, microsecond |-> 0]),
      TimedDelivery("456", 2, [second |-> 7, microsecond |-> 250]) }

\* the messages a file can hold: the saved deliveries, and one whose
\* 'timestamp' is not an ISO date
FileMessages ==
    { SerializeMessage(m) : m \in StoredDeliveries }
        \cup { TimedDelivery("123", 1, BadText) }

FileEntries ==
    [role_key : StoreKeys, messages : SeqsUpTo(FileMessages, MaxStoredMessages)]

StoreFiles ==
    { AbsentStore, CorruptStore } \cup
    { JsonStore(entries) : entries \in
        { e \in SeqsUpTo(FileEntries, Cardinality(StoreKeys)) :
            \A i, j \in 1..Len(e) : e[i].role_key = e[j].role_key => i = j } }

InitStore ==
    /\ previous_data = NoFile
    /\ cycle = NoCycle
    /\ cycles = 0
    /\ running = TRUE
    /\ failed_channels = {}
    /\ channel_failure_counts = [ch \in Channels |-> 0]
    /\ message_tracking = EmptyTracking
    /\ dispatches = << >>
    /\ sends = {}
    /\ updates = << >>
    /\ ready = << >>
    /\ consecutive_failures = [ch \in Channels |-> 0]
    /\ streak_before_success = [ch \in Channels |-> 0]
    /\ forbidden_seen = {}
    /\ main_pc = "start"
    /\ tracking_file \in StoreFiles
    /\ call = NoCall

RecordStore ==
    \E role_key \in StoreKeys, delivery \in StoredDeliveries :
        /\ role_key \in DOMAIN message_tracking =>
                Len(message_tracking[role_key]) < MaxStoredMessages
        /\ RecordDelivery(role_key, delivery)

ConsumeStore == \E role_key \in StoreKeys : ConsumeTracking(role_key)

NextStore == Main \/ RecordStore \/ ConsumeStore \/ SignalHandler

SpecStore == InitStore /\ [][NextStore]_vars

\* the rendering specification: each renderer applied to any record
InitFormat ==
    /\ previous_data = NoFile
    /\ cycle = NoCycle
    /\ cycles = 0
    /\ running = TRUE
    /\ failed_channels = {}
    /\ channel_failure_counts = [ch \in Channels |-> 0]
    /\ message_tracking = EmptyTracking
    /\ dispatches = << >>
    /\ sends = {}
    /\ updates = << >>
    /\ ready = << >>
    /\ consecutive_failures = [ch \in Channels |-> 0]
    /\ streak_before_success = [ch \in Channels |-> 0]
    /\ forbidden_seen = {}
    /\ main_pc = "run"
    /\ tracking_file = AbsentStore
    /\ call \in { [fn |-> "none", role |-> role] : role \in Records }

NextFormat == FormatMessageCall \/ UpdatedMessageCall

SpecFormat == InitFormat /\ [][NextFormat]_vars

\* the comparison specification: compare_roles applied to any two dicts
InitCompare ==
    /\ previous_data = NoFile
    /\ cycle = NoCycle
    /\ cycles = 0
    /\ running = TRUE
    /\ failed_channels = {}
    /\ channel_failure_counts = [ch \in Channels |-> 0]
    /\ message_tracking = EmptyTracking
    /\ dispatches = << >>
    /\ sends = {}
    /\ updates = << >>
    /\ ready = << >>
    /\ consecutive_failures = [ch \in Channels |-> 0]
    /\ streak_before_success = [ch \in Channels |-> 0]
    /\ forbidden_seen = {}
    /\ main_pc = "run"
    /\ tracking_file = AbsentStore
    /\ call \in { [fn |-> "none", old_role |-> old_role, new_role |-> new_role] :
                    old_role \in RoleDicts, new_role \in RoleDicts }

NextCompare == CompareRolesCall

SpecCompare == InitCompare /\ [][NextCompare]_vars

---------------------------------------------------------------------------
(* Properties of the diff, checked under SpecDiff *)

SameKey(a, b) == a.company_name = b.company_name /\ a.title = b.title

InSeq(r, seq) == \E j \in 1..Len(seq) : seq[j] = r

\* the records of the previous generation that carry the key of r
OldWithKey(r) ==
    { cycle.old_data[k] : k \in { k \in 1..Len(cycle.old_data) :
                                    SameKey(cycle.old_data[k], r) } }

\* C1: a record of the current dataset is returned as New exactly when no
\* record of the previous dataset has its (company_name, title) key and the
\* record is active and visible.
C1_NewIffAbsentActiveVisible ==
    \A i \in 1..Len(cycle.new_data) :
        LET r == cycle.new_data[i]
        IN  InSeq(r, cycle.new_roles)
                <=> (OldWithKey(r) = {} /\ r.active /\ r.is_visible)

\* a cycle that returned one record as New and held back another active,
\* visible record because its key was already there
C1_Witness ==
    /\ cycles = 1
    /\ Len(cycle.new_roles) = 1
    /\ \E i \in 1..Len(cycle.new_data) :
            /\ cycle.new_data[i].active
            /\ cycle.new_data[i].is_visible
            /\ OldWithKey(cycle.new_data[i]) # {}
            /\ ~InSeq(cycle.new_data[i], cycle.new_roles)

\* C2: a record of the current dataset is returned as Deactivated exactly
\* when its key is in the previous dataset, active there, and the record is
\* inactive now.  Stated so that it also covers a previous dataset that
\* lists a key more than once: active in every previous record of the key
\* is enough, active in some previous record of the key is needed; with one
\* record per key the two are the claim's "if and only if".
C2_DeactivatedIffWasActiveNowInactive ==
    \A i \in 1..Len(cycle.new_data) :
        LET r == cycle.new_data[i]
            old == OldWithKey(r)
        IN  /\ (old # {} /\ (\A o \in old : o.active) /\ ~r.active)
                    => InSeq(r, cycle.deactivated_roles)
            /\ InSeq(r, cycle.deactivated_roles)
                    => (old # {} /\ (\E o \in old : o.active) /\ ~r.active)

\* a cycle that returned one record as Deactivated and left alone another
\* inactive record whose key was there, but already inactive
C2_Witness ==
    /\ cycles = 1
    /\ UniqueKeys(cycle.old_data)
    /\ Len(cycle.deactivated_roles) = 1
    /\ \E i \in 1..Len(cycle.new_data) :
            /\ ~cycle.new_data[i].active
            /\ OldWithKey(cycle.new_data[i]) # {}
            /\ ~InSeq(cycle.new_data[i], cycle.deactivated_roles)

NothingCreated == dispatches = << >> /\ updates = << >> /\ ready = << >>

\* C3: a cycle whose fetched dataset equals the committed snapshot, keys
\* unique, classifies nothing as New or Deactivated and creates no dispatch
\* and no update pass.
C3_SelfDiffIsSilent ==
    (cycles = 1 /\ cycle.new_data = cycle.old_data
                /\ UniqueKeys(cycle.new_data))
        => /\ cycle.new_roles = << >>
           /\ cycle.deactivated_roles = << >>
           /\ NothingCreated

\* such a cycle over two records, one active and visible, one inactive
C3_Witness ==
    /\ cycles = 1
    /\ cycle.new_data = cycle.old_data
    /\ previous_data = File(cycle.new_data)
    /\ UniqueKeys(cycle.new_data)
    /\ Len(cycle.new_data) = 2
    /\ \E i, j \in 1..2 :
            /\ cycle.new_data[i].active /\ cycle.new_data[i].is_visible
            /\ ~cycle.new_data[j].active
    /\ NothingCreated

---------------------------------------------------------------------------
(* Properties of the dispatch and of the Channel Failure State *)

Blacklisted(ch) == ch \in failed_channels

\* the send_message tasks that issue a network call in this step: a task
\* that was not waiting for fetch_channel (for channel.send) and now is
IssuesFetch(ch) ==
    \E t \in sends' : t.ch = ch /\ t.pc = "fetch" /\ t \notin sends

IssuesSend(ch) ==
    \E t \in sends' : t.ch = ch /\ t.pc = "send" /\ t \notin sends

\* a step in which the attempt of task t ends in one of its four failures
FailureOf(t) ==
    FetchNotFound(t) \/ FetchForbidden(t) \/ FetchError(t) \/ SendError(t)

\* a step in which the attempt of task t ends in a counted failure
CountedFailureOf(t) == FetchNotFound(t) \/ FetchError(t) \/ SendError(t)

\* C4: the first stretch of send_messages_to_channels creates one
\* send_message per channel that is not blacklisted at that moment and none
\* for a blacklisted one: N - K of them.
C4_AttemptsExactlyNonBlacklisted ==
    [][ \A d \in 1..Len(dispatches) :
            DispatchStart(d) =>
                LET started == sends' \ sends
                IN  /\ \A t \in started : t.d = d /\ t.pc = "ready"
                    /\ { t.ch : t \in started } = Channels \ failed_channels
                    /\ Cardinality(started) =
                            Len(CHANNEL_IDS) - Cardinality(failed_channels)
                    /\ sends \subseteq sends' ]_vars

\* a dispatch that has just started with one of the two channels
\* blacklisted: its only send_message is the one for the other channel
C4_Witness ==
    \E d \in 1..Len(dispatches) :
        LET mine == { t \in sends : t.d = d }
        IN  /\ dispatches[d].pc = "gather"
            /\ Cardinality(failed_channels) = 1
            /\ Cardinality(mine) = 1
            /\ \A t \in mine : t.pc = "ready" /\ ~Blacklisted(t.ch)
            /\ dispatches[d].pending = { t.ch : t \in mine }
            /\ dispatches[d].pending = Channels \ failed_channels

\* C5: MAX_RETRIES consecutive counted failures put the channel in the
\* blacklist; fewer do not; a success on a channel that is not blacklisted
\* leaves it out of the blacklist with failure count 0.
C5_ThresholdBlacklistsSuccessResets ==
    /\ [](\A ch \in Channels :
            consecutive_failures[ch] >= MAX_RETRIES => Blacklisted(ch))
    /\ [][ \A t \in sends :
            (CountedFailureOf(t) /\ ~Blacklisted(t.ch)
                /\ consecutive_failures[t.ch] + 1 < MAX_RETRIES)
                => t.ch \notin failed_channels' ]_vars
    /\ [][ \A t \in sends :
            (SendOk(t) /\ ~Blacklisted(t.ch))
                => /\ t.ch \notin failed_channels'
                   /\ channel_failure_counts'[t.ch] = 0 ]_vars

\* channel "123" after MAX_RETRIES - 1 failures and then a success: not
\* blacklisted, count 0
C5_Witness ==
    /\ streak_before_success["123"] = MAX_RETRIES - 1
    /\ consecutive_failures["123"] = 0
    /\ channel_failure_counts["123"] = 0
    /\ ~Blacklisted("123")

\* C6: a channel is in the blacklist exactly when its failure count is at
\* MAX_RETRIES or above, or its resolution was answered forbidden.
C6_BlacklistIffThresholdOrForbidden ==
    \A ch \in Channels :
        Blacklisted(ch) <=> (channel_failure_counts[ch] >= MAX_RETRIES
                                \/ ch \in forbidden_seen)

\* C7: a forbidden answer to fetch_channel blacklists the channel in that
\* one step, changes no failure count, and ends the task before any send.
C7_ForbiddenBlacklistsAtOnce ==
    [][ \A t \in sends :
            FetchForbidden(t) =>
                /\ t.ch \in failed_channels'
                /\ channel_failure_counts' = channel_failure_counts
                /\ ~IssuesSend(t.ch)
                /\ \A t2 \in sends' : ~(t2.d = t.d /\ t2.ch = t.ch) ]_vars

\* a channel blacklisted by a forbidden answer while its failure count is
\* below the threshold and above zero, and one blacklisted with count 0
C7_Witness ==
    /\ forbidden_seen = Channels
    /\ failed_channels = Channels
    /\ \E ch \in Channels : channel_failure_counts[ch] = 0
    /\ \E ch \in Channels : channel_failure_counts[ch] \in 1..(MAX_RETRIES - 1)

\* C8: once blacklisted, always blacklisted.
C8_BlacklistOneWay ==
    [][ failed_channels \subseteq failed_channels' ]_vars

\* channel "123" reached the threshold, then a send that was already in
\* flight succeeded and an update pass ran: it is still blacklisted
C8_Witness ==
    /\ Blacklisted("123")
    /\ "123" \notin forbidden_seen
    /\ channel_failure_counts["123"] = 0
    /\ \E u \in 1..Len(updates) : updates[u].pc \in {"done", "raised"}

\* C9: once a channel is blacklisted no fetch_channel and no send is issued
\* for it and its failure count stays as it is.
C9_NoAttemptAfterBlacklist ==
    [][ \A ch \in failed_channels :
            /\ ~IssuesFetch(ch)
            /\ ~IssuesSend(ch)
            /\ channel_failure_counts'[ch] = channel_failure_counts[ch] ]_vars

\* C10: a failure of one channel's attempt leaves every task for another
\* channel where it was, leaves the failure state of the other channels as
\* it was, counts as finished for the join, and the dispatch ends "done".
C10_FailureIsolation ==
    /\ [][ \A t \in sends :
            FailureOf(t) =>
                /\ \A t2 \in sends : t2.ch # t.ch => t2 \in sends'
                /\ \A ch \in Channels \ {t.ch} :
                        /\ Blacklisted(ch) <=> ch \in failed_channels'
                        /\ channel_failure_counts'[ch] = channel_failure_counts[ch]
                /\ dispatches'[t.d].pending = dispatches[t.d].pending \ {t.ch}
                /\ dispatches'[t.d].pc = "gather" ]_vars
    /\ [](\A d \in 1..Len(dispatches) :
            /\ dispatches[d].pc \in {"ready", "gather", "done"}
            /\ (dispatches[d].pc = "gather" /\ dispatches[d].pending = {})
                    => ENABLED DispatchJoin(d))
    /\ [][ \A d \in 1..Len(dispatches) :
            DispatchJoin(d) => dispatches'[d].pc = "done" ]_vars

\* the first dispatch is over: channel "123" failed, channel "456" got the
\* message
C10_Witness ==
    /\ cycles = 1
    /\ Len(dispatches) = 1
    /\ dispatches[1].pc = "done"
    /\ channel_failure_counts["123"] = 1
    /\ ~Blacklisted("456")
    /\ "Acme_Intern" \in DOMAIN message_tracking
    /\ message_tracking["Acme_Intern"] =
            << Delivery("456", MessageId(1, "456")) >>

---------------------------------------------------------------------------
(* Properties of the cycle, the join and the update pass *)

DispatchIds == 1..Len(dispatches)
UpdateIds == 1..Len(updates)

Ended(u) == updates[u].pc \in {"done", "raised"}

\* no task is waiting to run, suspended, or unfinished
Quiescent ==
    /\ ready = << >>
    /\ sends = {}
    /\ \A d \in DispatchIds : dispatches[d].pc = "done"
    /\ \A u \in UpdateIds : Ended(u)

\* C11: a send_messages_to_channels call has returned only if every
\* send_message it started has finished, the sleep after a successful send
\* included.
C11_JoinAfterEveryAttempt ==
    \A d \in DispatchIds :
        dispatches[d].pc = "done" => ~\E t \in sends : t.d = d

\* a dispatch that returned after both channels got the message and both
\* sleeps were over
C11_Witness ==
    \E d \in DispatchIds :
        /\ dispatches[d].pc = "done"
        /\ dispatches[d].delivered = Channels
        /\ ~\E t \in sends : t.d = d

\* C12: the snapshot is overwritten only when every dispatch and every
\* update pass created so far, those of this cycle included, has completed.
C12_CommitAfterFanOut ==
    [][ previous_data' # previous_data =>
            /\ \A d \in 1..Len(dispatches') : dispatches'[d].pc = "done"
            /\ \A u \in 1..Len(updates') : updates'[u].pc \in {"done", "raised"}
      ]_vars

\* C13: when the loop is alive and nothing is left to run, the notification
\* of every record found New has been delivered to every channel that is
\* not blacklisted.
C13_NewRoleDeliveredEverywhere ==
    (running /\ Quiescent) =>
        \A d \in DispatchIds :
            dispatches[d].kind = "new" =>
                Channels \ failed_channels \subseteq dispatches[d].delivered

\* C14: a cycle that fails to obtain the dataset creates no task and leaves
\* previous_data.json and the tracking store as they were.
C14_FetchFailureChangesNothing ==
    [][ CheckForNewRolesFetchError =>
            /\ dispatches' = dispatches
            /\ updates' = updates
            /\ ready' = ready
            /\ sends' = sends
            /\ previous_data' = previous_data
            /\ message_tracking' = message_tracking ]_vars

\* the second cycle failed to obtain the dataset: the snapshot committed by
\* the first cycle and the delivery it tracked are still there
C14_Witness ==
    /\ cycles = 2
    /\ ~running
    /\ ~cycle.raised
    /\ cycle.new_data # << >>
    /\ previous_data = File(cycle.new_data)
    /\ Len(dispatches) = 1
    /\ "Acme_Intern" \in DOMAIN message_tracking

\* C15: after any cycle, failed or not, the polling loop is still running.
C15_LoopSurvivesCycle ==
    [][ cycles' # cycles => running' ]_vars

\* C16: a cycle that obtained the dataset leaves exactly that dataset in
\* previous_data.json.
C16_CommitsFetchedDataset ==
    [][ \A new_data \in CycleInputs :
            CheckForNewRoles(new_data) => previous_data' = File(new_data) ]_vars

\* the tracking store gains a delivery under key k in this step
Gains(k) ==
    /\ k \in DOMAIN message_tracking'
    /\ \/ k \notin DOMAIN message_tracking
       \/ Len(message_tracking'[k]) > Len(message_tracking[k])

TrackedBefore(k) ==
    IF k \in DOMAIN message_tracking THEN message_tracking[k] ELSE << >>

\* C17: a send that succeeds with a record key appends that one delivery to
\* the key's entry and zeroes the channel's failure count; a send that
\* succeeds without a key zeroes the count and tracks nothing; no other
\* step adds a delivery.
C17_TrackedExactlyOnKeyedSuccess ==
    /\ [][ \A t \in sends :
            SendOk(t) =>
                /\ channel_failure_counts'[t.ch] = 0
                /\ IF t.role_key # None
                   THEN /\ t.role_key \in DOMAIN message_tracking'
                        /\ message_tracking'[t.role_key] =
                                Append(TrackedBefore(t.role_key),
                                       Delivery(t.ch, MessageId(t.d, t.ch)))
                        /\ \A k \in DOMAIN message_tracking' \ {t.role_key} :
                                ~Gains(k)
                   ELSE message_tracking' = message_tracking ]_vars
    /\ [][ \A k \in DOMAIN message_tracking' :
            Gains(k) => \E t \in sends : SendOk(t) /\ t.role_key = k ]_vars

\* both cycles ran before any task: the opening notice failed on "456" and
\* was tracked for "123" after the update pass had found nothing; the
\* closing notice, sent without a key, reached both channels, reset the
\* count of "456" and tracked nothing
C17_Witness ==
    /\ Len(dispatches) = 2
    /\ dispatches[1].kind = "new"
    /\ dispatches[1].delivered = {"123"}
    /\ dispatches[2].kind = "deactivation"
    /\ dispatches[2].delivered = Channels
    /\ DOMAIN message_tracking = {"Acme_Intern"}
    /\ message_tracking["Acme_Intern"] =
            << Delivery("123", MessageId(1, "123")) >>
    /\ \A ch \in Channels : channel_failure_counts[ch] = 0
    /\ Quiescent

\* C18: the step that ends an update pass for a key that had n tracked
\* deliveries comes after an edit attempt for each of the n and leaves the
\* key out of the tracking store; a pass for a key without deliveries
\* attempts no edit.
C18_PassEditsAllAndDeletesKey ==
    [][ \A u \in UpdateIds :
            (~Ended(u) /\ updates'[u].pc \in {"done", "raised"}) =>
                LET k == updates[u].role_key
                IN  /\ k \notin DOMAIN message_tracking'
                    /\ updates'[u].i = Len(TrackedBefore(k)) ]_vars

\* the deliveries for which pass u has finished an edit attempt
EditedBy(u) ==
    LET n == IF updates[u].pc = "edit" THEN updates[u].i - 1
             ELSE updates[u].i
    IN  { << u, j, updates[u].msgs[j] >> : j \in 1..n }

\* C19: no delivery gets more than one edit attempt.
C19_AtMostOneEditPerDelivery ==
    \A u1, u2 \in UpdateIds :
        \A a \in EditedBy(u1), b \in EditedBy(u2) :
            a[3] = b[3] => (a[1] = b[1] /\ a[2] = b[2])

\* the update pass created together with deactivation dispatch d
PairedUpdate(d) ==
    Cardinality({ e \in 1..d : dispatches[e].kind = "deactivation" })

\* C20: a send_message of a deactivation dispatch issues its first network
\* call only after the update pass of the same record has removed the
\* record's entries from the tracking store.
C20_ConsumedBeforeDeactivationSend ==
    [][ \A t \in sends' :
            (t \notin sends /\ t.pc \in {"fetch", "send"}
                /\ dispatches[t.d].kind = "deactivation")
                => updates[PairedUpdate(t.d)].pc = "done" ]_vars

---------------------------------------------------------------------------
(* Properties of the tracking store, checked under SpecStore *)

\* the file holds delivery msg under role_key, with a timestamp that reads
\* back as the one in memory
Persisted(file, role_key, msg) ==
    /\ file.kind = "json"
    /\ \E i \in 1..Len(file.entries) :
        /\ file.entries[i].role_key = role_key
        /\ \E j \in 1..Len(file.entries[i].messages) :
            LET stored == file.entries[i].messages[j]
            IN  /\ stored.channel_id = msg.channel_id
                /\ stored.message_id = msg.message_id
                /\ stored.timestamp.valid
                /\ FromIsoformat(stored.timestamp) = msg.timestamp

WellFormedStore(file) ==
    /\ file.kind = "json"
    /\ \A i \in 1..Len(file.entries) : ~EntryRaises(file.entries[i].messages)

\* C22: a start on an absent, unreadable or malformed file leaves no
\* delivery in memory
C22_MalformedStoreLoadsNothing ==
    [][ (main_pc # "run" /\ main_pc' = "run"
            /\ ~WellFormedStore(tracking_file)) =>
            \A k \in DOMAIN message_tracking' :
                message_tracking'[k] = << >> ]_vars

\* C23: a process started on the file that a save of tracking state T wrote
\* holds exactly T: same keys, same deliveries in the same order, equal
\* timestamps
C23_SaveLoadRoundTrip ==
    [][ (main_pc = "exit" /\ main_pc' = "run"
            /\ \E order \in KeyOrders(message_tracking) :
                    tracking_file =
                        JsonStore(SerializedTracking(message_tracking, order)))
            => message_tracking' = message_tracking ]_vars

C23_Witness ==
    /\ main_pc = "run"
    /\ DOMAIN message_tracking = StoreKeys
    /\ \E k \in StoreKeys :
            { message_tracking[k][j] : j \in 1..Len(message_tracking[k]) }
                = StoredDeliveries
    /\ \E order \in KeyOrders(message_tracking) :
            tracking_file =
                JsonStore(SerializedTracking(message_tracking, order))

---------------------------------------------------------------------------
(* Properties of the renderers, checked under SpecFormat *)

\* role['locations'] is an empty list, null, or not there
NoLocations(role) ==
    \/ role.locations.kind \in { "missing", "null" }
    \/ role.locations.places = << >>

\* C24: for a record whose locations are an empty list, null or missing,
\* both renderers return without raising and their text carries the
\* placeholder
C24_RendersPlaceholder ==
    (call.fn \in { "format_message", "updated_message" }
        /\ NoLocations(call.role)) =>
        /\ ~call.result.raised
        /\ call.result.location = Placeholder

---------------------------------------------------------------------------
(* Properties of compare_roles, checked under SpecCompare *)

HasKey(role, key) == \E i \in 1..Len(role) : role[i].key = key

\* the descriptions of the result that are about field key
ChangesOf(key) ==
    { i \in 1..Len(call.result) :
        call.result[i] = ChangeText(key, Get(call.old_role, key),
                                    Get(call.new_role, key)) }

\* C25: compare_roles returns exactly one description for every field of
\* new whose value differs from old's, a field absent from old differing
\* from every present value (null included), and nothing else
C25_OneChangePerDifferingField ==
    call.fn = "compare_roles" =>
        /\ \A key \in CompareFields :
            Cardinality(ChangesOf(key)) =
                IF /\ HasKey(call.new_role, key)
                   /\ \/ ~HasKey(call.old_role, key)
                      \/ Get(call.old_role, key) # Get(call.new_role, key)
                THEN 1 ELSE 0
        /\ \A i \in 1..Len(call.result) :
            \E key \in CompareFields : i \in ChangesOf(key)

---------------------------------------------------------------------------
(* Properties of the cycles and of the shared state, checked under
   SpecRetry and SpecDiff *)

\* C26: a cycle starts its diff only when every dispatch task and every
\* update pass of the earlier cycles has finished
C26_CyclesNeverOverlap ==
    [][ (\E new_data \in RetryInputs : CheckForNewRoles(new_data))
            => Quiescent ]_vars

\* the successful sends of a step: channel.send has returned and the task
\* has gone on to its sleep
Succeeds(t) ==
    /\ t \in sends
    /\ t.pc = "send"
    /\ [t EXCEPT !.pc = "sleep"] \in sends'

Embeddings(out, data) ==
    { f \in [1..Len(out) -> 1..Len(data)] :
        /\ \A i, j \in 1..Len(out) : i < j => f[i] < f[j]
        /\ \A i \in 1..Len(out) : data[f[i]] = out[i] }

Places(f) == { f[i] : i \in DOMAIN f }

\* where task sits in the ready queue
ReadyPlace(task) == CHOOSE i \in 1..Len(ready) : ready[i] = task

\* C28: the two lists of the diff follow the order of the fetched dataset,
\* no place of the dataset is in both, and the tasks are created in that
\* order, those of the new roles first
C28_OrderOfAppearance ==
    (cycles = 1 /\ running) =>
        LET nn == Len(cycle.new_roles)
            nx == Len(cycle.deactivated_roles)
        IN  /\ \E f \in Embeddings(cycle.new_roles, cycle.new_data),
                  g \in Embeddings(cycle.deactivated_roles, cycle.new_data) :
                    Places(f) \cap Places(g) = {}
            /\ Len(dispatches) = nn + nx
            /\ \A i \in 1..nn :
                    /\ dispatches[i].kind = "new"
                    /\ dispatches[i].about = DictKey(cycle.new_roles[i])
            /\ \A j \in 1..nx :
                    /\ dispatches[nn + j].kind = "deactivation"
                    /\ dispatches[nn + j].about =
                            DictKey(cycle.deactivated_roles[j])
                    /\ updates[j].about = DictKey(cycle.deactivated_roles[j])
                    /\ ReadyPlace(UpdateTask(j)) + 1
                            = ReadyPlace(DispatchTask(nn + j))
            /\ \A d, e \in DispatchIds :
                    d < e => ReadyPlace(DispatchTask(d))
                                < ReadyPlace(DispatchTask(e))

C28_Witness ==
    /\ cycles = 1
    /\ Len(cycle.new_roles) = 1
    /\ Len(cycle.deactivated_roles) = 1
    /\ cycle.new_data[1] = cycle.deactivated_roles[1]
    /\ dispatches[1].kind = "new"
    /\ dispatches[2].kind = "deactivation"

\* no dispatch for a new role with key k was created after dispatch d
LastAnnouncement(d, k) ==
    \A e \in DispatchIds : (e > d /\ dispatches[e].kind = "new")
                                => dispatches[e].role_key # k

\* C29: once the update pass of a key's deactivation has returned and every
\* task has finished, the store holds no entry for that key
C29_DeactivationConsumesTracking ==
    Quiescent =>
        \A d \in DispatchIds :
            (/\ dispatches[d].kind = "deactivation"
             /\ updates[PairedUpdate(d)].pc = "done"
             /\ LastAnnouncement(d, updates[PairedUpdate(d)].role_key))
                => updates[PairedUpdate(d)].role_key
                        \notin DOMAIN message_tracking

---------------------------------------------------------------------------
(* Properties of the tracking key, checked under SpecKey *)

\* the dispatch whose send_message delivered msg
SourceDispatch(msg) == (msg.message_id - 1) \div Len(CHANNEL_IDS) + 1

\* C30: the update pass of a deactivated record edits only messages that
\* announced a record with the same (title, company_name)
C30_TrackingKeyIdentifiesRecord ==
    \A u \in UpdateIds :
        \A e \in EditedBy(u) :
            dispatches[SourceDispatch(e[3])].about = updates[u].about

---------------------------------------------------------------------------
(* Bound of the failure count, checked under SpecRetry *)

\* C31: the failure count of a channel never exceeds MAX_RETRIES, and the
\* count of a channel that is not blacklisted is below MAX_RETRIES
C31_CountBounded ==
    \A ch \in Channels :
        /\ channel_failure_counts[ch] <= MAX_RETRIES
        /\ ch \notin failed_channels =>
                channel_failure_counts[ch] < MAX_RETRIES

---------------------------------------------------------------------------
(* Diff of a snapshot against itself, checked under SpecDiff *)

\* C32: a cycle that fetches the dataset it committed last, repeated keys
\* or not, finds no new and no deactivated role
C32_SelfDiffSilent ==
    (cycles = 1 /\ previous_data.exists /\ cycle.old_data = cycle.new_data) =>
        /\ cycle.new_roles = << >>
        /\ cycle.deactivated_roles = << >>

====
